---------------------------- MODULE Spec2Model ----------------------------
(***************************************************************************)
(* A model of the VTT transcript pipeline of vtt_parser.py and              *)
(* clean_transcript.py: VTTParser.parse, TranscriptGrouper.group_by_speaker,*)
(* TranscriptChunker.create_chunks, MarkdownExporter.export_raw,            *)
(* TranscriptCleaner.clean_chunk and the progressive export loop of         *)
(* clean_transcript.main.                                                   *)
(*                                                                          *)
(* A text is a sequence of characters (one-character strings).  In the      *)
(* response of the external transform two multi-character tokens are kept   *)
(* atomic: "M" stands for one match of the regex \[STATEMENT \d+\] and "S"  *)
(* for the line prefix "Speaker:".  A timestamp HH:MM:SS.mmm is the triple  *)
(* <<hours, minutes, milliseconds>>; _time_to_seconds yields milliseconds   *)
(* where the code yields float seconds, and max_gap_seconds is kept in      *)
(* milliseconds accordingly.                                                *)
(*                                                                          *)
(* The pure stages (parse, group_by_speaker, create_chunks, clean_chunk)    *)
(* are operators that follow the loops of the code; each has its own        *)
(* specification whose Init draws the inputs and whose action applies the   *)
(* stage.  SpecMain is the export loop of clean_transcript.main, one action *)
(* per step, with the interruption of the run and the failure of the        *)
(* external transform call as actions of the environment.                   *)
(***************************************************************************)
EXTENDS Integers, Sequences, FiniteSets, TLC

VARIABLES
    pc,               \* position of the run
    lines,            \* VTTParser.parse: content.split('\n'), one kind per line
    segments,         \* VTTParser.segments / TranscriptGrouper.segments
    max_gap_seconds,  \* TranscriptGrouper.max_gap_seconds (in milliseconds)
    statements,       \* List[SpeakerStatement]
    max_tokens,       \* TranscriptChunker.max_tokens
    chunks,           \* result of create_chunks
    result_text,      \* clean_chunk: response.choices[0].message.content
    cleaned_chunk,    \* result of clean_chunk for the current chunk
    cleaned_chunks,   \* history: what clean_chunk returned, chunk by chunk
    i,                \* main: enumerate(chunks, 1)
    k,                \* main: position in zip(chunk, cleaned_chunk)
    prev_speaker,     \* main: prev_speaker of the open chunk
    buffer,           \* main: written to f, not yet flushed by close
    file,             \* content of transcript_cleaned.md
    raw               \* content of transcript_raw.md

vars == <<pc, lines, segments, max_gap_seconds, statements, max_tokens, chunks,
          result_text, cleaned_chunk, cleaned_chunks, i, k, prev_speaker,
          buffer, file, raw>>

\* Python's None where a line index is expected.
None == 0

\* Python's None where a speaker is expected: equal to no speaker's name.
NoSpeaker == "<None>"

(***************************************************************************)
(* Bounds of the model.                                                    *)
(***************************************************************************)
MaxLines == 7
MaxCues == 3
MaxStatements == 4
MaxTokens == 3
MaxResponseLen == 5
MaxCleanStatements == 2
MaxMainCues == 3

(***************************************************************************)
(* Texts.                                                                  *)
(***************************************************************************)
RECURSIVE SeqsUpTo(_, _)
SeqsUpTo(S, n) ==
    IF n = 0 THEN {<<>>}
    ELSE LET shorter == SeqsUpTo(S, n - 1)
         IN  shorter \cup {Append(s, x) : s \in {t \in shorter : Len(t) = n - 1}, x \in S}

RECURSIVE Flatten(_)
Flatten(ss) == IF ss = <<>> THEN <<>> ELSE Head(ss) \o Flatten(Tail(ss))

\* The characters str.strip() removes.
Whitespace == {" ", "\n"}

RECURSIVE LStrip(_)
LStrip(t) == IF t # <<>> /\ Head(t) \in Whitespace THEN LStrip(Tail(t)) ELSE t

RECURSIVE RStrip(_)
RStrip(t) ==
    IF t # <<>> /\ t[Len(t)] \in Whitespace THEN RStrip(SubSeq(t, 1, Len(t) - 1)) ELSE t

\* str.strip()
Strip(t) == RStrip(LStrip(t))

\* sep.join(texts)
RECURSIVE Join(_, _)
Join(texts, sep) ==
    IF texts = <<>> THEN <<>>
    ELSE IF Len(texts) = 1 THEN texts[1]
    ELSE texts[1] \o sep \o Join(Tail(texts), sep)

\* str.split(c) for a one-character separator: always at least one part.
RECURSIVE SplitOn(_, _)
SplitOn(t, c) ==
    IF \A n \in 1..Len(t) : t[n] # c THEN <<t>>
    ELSE LET n == CHOOSE m \in 1..Len(t) : t[m] = c /\ \A j \in 1..(m - 1) : t[j] # c
         IN  <<SubSeq(t, 1, n - 1)>> \o SplitOn(SubSeq(t, n + 1, Len(t)), c)

\* SpeakerStatement.full_text: " ".join(seg.text for seg in self.segments)
full_text(statement) ==
    Join([n \in 1..Len(statement.segments) |-> statement.segments[n].text], <<" ">>)

(***************************************************************************)
(* VTTParser.parse.  A line is one of: "WEBVTT" (the header), "blank"      *)
(* (empty after strip), "id" (no '-->', no voice tag), "voiced" (no '-->', *)
(* holds a <v Name> tag), "ts_ok" (holds '-->' and matches the timestamp   *)
(* regex of _add_segment), "ts_bad" (holds '-->', does not match).  The    *)
(* content of a line is its index: an emitted segment names the lines its  *)
(* id, its times, its speaker and its text were taken from.                *)
(***************************************************************************)
LineKinds == {"blank", "id", "voiced", "ts_ok", "ts_bad"}

IsBlankLine(ls, n) == ls[n] = "blank"
HasArrow(ls, n) == ls[n] \in {"ts_ok", "ts_bad"}

\* Lines 52-58: skip to the WEBVTT line, past it, and past the blank lines after it.
RECURSIVE SkipToHeader(_, _)
SkipToHeader(ls, n) ==
    IF n <= Len(ls) /\ ls[n] # "WEBVTT" THEN SkipToHeader(ls, n + 1) ELSE n

RECURSIVE SkipBlank(_, _)
SkipBlank(ls, n) ==
    IF n <= Len(ls) /\ IsBlankLine(ls, n) THEN SkipBlank(ls, n + 1) ELSE n

\* Lines 82-84: the index after the run of non-blank lines that starts at n.
RECURSIVE SkipText(_, _)
SkipText(ls, n) ==
    IF n <= Len(ls) /\ ~IsBlankLine(ls, n) THEN SkipText(ls, n + 1) ELSE n

\* The speaker of a segment: the first voice tag of the joined text lines, else "Unknown"
\* (None here); the tag is named by the line that holds it.
Speaker(ls, text_lines) ==
    LET voiced == {n \in 1..Len(text_lines) : ls[text_lines[n]] = "voiced"}
    IN  IF voiced = {} THEN None
        ELSE text_lines[CHOOSE n \in voiced : \A m \in voiced : n <= m]

\* A bug _add_segment could have: no check of the timestamp regex.
_add_segment_unchecked(ls, segs, segment_id, timestamp, text_lines) ==
    Append(segs, [id |-> segment_id, start_time |-> timestamp, end_time |-> timestamp,
                  speaker |-> Speaker(ls, text_lines), text |-> text_lines])

_add_segment(ls, segs, segment_id, timestamp, text_lines) ==
    IF ls[timestamp] # "ts_ok" THEN segs
    ELSE Append(segs, [id |-> segment_id, start_time |-> timestamp, end_time |-> timestamp,
                       speaker |-> Speaker(ls, text_lines), text |-> text_lines])

\* Lines 64-93: the scanning loop and the flush at end of input.
RECURSIVE ParseLoop(_, _, _, _, _, _)
ParseLoop(ls, n, current_id, current_timestamp, current_text, segs) ==
    IF n > Len(ls) THEN
        IF current_id # None /\ current_timestamp # None /\ current_text # <<>>
        THEN _add_segment(ls, segs, current_id, current_timestamp, current_text)
        ELSE segs
    ELSE IF IsBlankLine(ls, n) THEN
        IF current_id # None /\ current_timestamp # None /\ current_text # <<>>
        THEN ParseLoop(ls, n + 1, None, None, <<>>,
                       _add_segment(ls, segs, current_id, current_timestamp, current_text))
        ELSE ParseLoop(ls, n + 1, current_id, current_timestamp, current_text, segs)
    ELSE IF HasArrow(ls, n) THEN
        LET m == SkipText(ls, n + 1)
        IN  ParseLoop(ls, m, current_id, n,
                      current_text \o [j \in 1..(m - n - 1) |-> n + j], segs)
    ELSE ParseLoop(ls, n + 1, n, current_timestamp, current_text, segs)

parse(ls) == ParseLoop(ls, SkipBlank(ls, SkipToHeader(ls, 1) + 1), None, None, <<>>, <<>>)

\* The inputs: the header line, then up to MaxLines lines of any kind.
ParseInputs == {<<"WEBVTT">> \o body : body \in SeqsUpTo(LineKinds, MaxLines)}

InitParse ==
    /\ pc = "parse"
    /\ lines \in ParseInputs
    /\ segments = <<>> /\ max_gap_seconds = 0 /\ statements = <<>>
    /\ max_tokens = 0 /\ chunks = <<>> /\ result_text = <<>> /\ cleaned_chunk = <<>>
    /\ cleaned_chunks = <<>> /\ i = 0 /\ k = 0 /\ prev_speaker = NoSpeaker
    /\ buffer = <<>> /\ file = <<>> /\ raw = <<>>

Parse ==
    /\ pc = "parse"
    /\ segments' = parse(lines)
    /\ pc' = "parsed"
    /\ UNCHANGED <<lines, max_gap_seconds, statements, max_tokens, chunks, result_text,
                   cleaned_chunk, cleaned_chunks, i, k, prev_speaker, buffer, file, raw>>

SpecParse == InitParse /\ [][Parse]_vars


(***************************************************************************)
(* The blocks of a parser input, read off the input alone: a block is a    *)
(* maximal run of non-blank lines after the header line.                   *)
(***************************************************************************)
BlockStarts(ls) ==
    {s \in 2..Len(ls) : ls[s] # "blank" /\ (s = 2 \/ ls[s - 1] = "blank")}

BlockEnd(ls, s) ==
    CHOOSE e \in s..Len(ls) :
        /\ \A j \in s..e : ls[j] # "blank"
        /\ (e = Len(ls) \/ ls[e + 1] = "blank")

\* An id line, a timestamp line (well-formed, or malformed with or without '-->')
\* and at least one text line.
WholeBlock(ls, s) ==
    /\ BlockEnd(ls, s) >= s + 2
    /\ ls[s] \in {"id", "voiced"}
    /\ \A j \in (s + 2)..BlockEnd(ls, s) : ls[j] \in {"id", "voiced"}

BlockInput(ls) == \A s \in BlockStarts(ls) : WholeBlock(ls, s)

BlockCue(ls, s) ==
    LET e == BlockEnd(ls, s)
        tagged == {j \in (s + 2)..e : ls[j] = "voiced"}
    IN  [id |-> s, start_time |-> s + 1, end_time |-> s + 1,
         speaker |-> IF tagged = {} THEN None
                     ELSE CHOOSE j \in tagged : \A m \in tagged : j <= m,
         text |-> [j \in 1..(e - s - 1) |-> s + 1 + j]]

RECURSIVE ExpectedCues(_, _)
ExpectedCues(ls, n) ==
    IF n > Len(ls) THEN <<>>
    ELSE IF n \notin BlockStarts(ls) THEN ExpectedCues(ls, n + 1)
    ELSE (IF ls[n + 1] = "ts_ok" THEN <<BlockCue(ls, n)>> ELSE <<>>)
         \o ExpectedCues(ls, BlockEnd(ls, n) + 1)

\* The lines a cue was built from.
CueLines(cue) ==
    {cue.id, cue.start_time, cue.end_time} \cup {cue.text[j] : j \in 1..Len(cue.text)}

\* C8: for an input of whole blocks (id line, timestamp line, at least one text
\* line), some with a malformed timestamp line, parse returns exactly the cues of
\* the blocks whose timestamp line is well-formed, in input order, each with its
\* own id, times, speaker and text, the last block at end of input included.
C8_MalformedBlocksSkipped ==
    (pc = "parsed" /\ BlockInput(lines)) => segments = ExpectedCues(lines, 2)

\* C8 witness: a block with a malformed timestamp line, then a well-formed block
\* that ends at end of input without a blank line, which is the one cue returned.
C8_Witness ==
    /\ pc = "parsed"
    /\ BlockInput(lines)
    /\ lines[Len(lines)] # "blank"
    /\ \E s1, s2 \in BlockStarts(lines) :
          /\ s1 < s2
          /\ lines[s1 + 1] # "ts_ok"
          /\ lines[s2 + 1] = "ts_ok"
          /\ BlockEnd(lines, s2) = Len(lines)
          /\ segments = <<BlockCue(lines, s2)>>

\* C9: every cue parse emits carries an id, a timestamp and text lines of one
\* block only: no blank line lies between any two of the lines it was built from.
C9_NoLeakAcrossBlocks ==
    pc = "parsed" =>
        \A c \in 1..Len(segments) :
            \A a, b \in CueLines(segments[c]) :
                \A j \in a..b : lines[j] # "blank"

(***************************************************************************)
(* TranscriptGrouper.group_by_speaker.                                     *)
(***************************************************************************)
\* _time_to_seconds, in milliseconds.
_time_to_seconds(timestamp) ==
    timestamp[1] * 3600000 + timestamp[2] * 60000 + timestamp[3]

Last(s) == s[Len(s)]

\* Lines 158-163 and 172-177.
SpeakerStatement(speaker, current_statement) ==
    [speaker |-> speaker,
     start_time |-> current_statement[1].start_time,
     end_time |-> Last(current_statement).end_time,
     segments |-> current_statement]

\* A bug the loop could have: the time gap is not checked.
GroupStep_NoGapCheck(st, segment, gap) ==
    IF segment.speaker = st.current_speaker
    THEN [st EXCEPT !.current_statement = Append(@, segment)]
    ELSE [statements |-> Append(st.statements,
                                SpeakerStatement(st.current_speaker, st.current_statement)),
          current_statement |-> <<segment>>,
          current_speaker |-> segment.speaker]

\* A bug the loop could have: < where the code has <=.
GroupStep_StrictGap(st, segment, gap) ==
    IF /\ segment.speaker = st.current_speaker
       /\ _time_to_seconds(segment.start_time)
            - _time_to_seconds(Last(st.current_statement).end_time) < gap
    THEN [st EXCEPT !.current_statement = Append(@, segment)]
    ELSE [statements |-> Append(st.statements,
                                SpeakerStatement(st.current_speaker, st.current_statement)),
          current_statement |-> <<segment>>,
          current_speaker |-> segment.speaker]

\* Lines 147-168: one iteration of the loop over self.segments[1:].
GroupStep(st, segment, gap) ==
    IF /\ segment.speaker = st.current_speaker
       /\ _time_to_seconds(segment.start_time)
            - _time_to_seconds(Last(st.current_statement).end_time) <= gap
    THEN [st EXCEPT !.current_statement = Append(@, segment)]
    ELSE [statements |-> Append(st.statements,
                                SpeakerStatement(st.current_speaker, st.current_statement)),
          current_statement |-> <<segment>>,
          current_speaker |-> segment.speaker]

RECURSIVE GroupLoop(_, _, _)
GroupLoop(st, rest, gap) ==
    IF rest = <<>> THEN st ELSE GroupLoop(GroupStep(st, Head(rest), gap), Tail(rest), gap)

group_by_speaker(segs, gap) ==
    IF segs = <<>> THEN <<>>
    ELSE LET st == GroupLoop([statements |-> <<>>,
                              current_statement |-> <<segs[1]>>,
                              current_speaker |-> segs[1].speaker],
                             Tail(segs), gap)
         IN  IF st.current_statement # <<>>
             THEN Append(st.statements,
                         SpeakerStatement(st.current_speaker, st.current_statement))
             ELSE st.statements

\* The inputs: cues of two speakers over a few time spans, in any order (so
\* overlapping and out-of-order cues occur), and two gap thresholds.
Spans ==
    {<< <<0, 0, 0>>, <<0, 0, 2000>> >>,
     << <<0, 0, 2000>>, <<0, 0, 4000>> >>,
     << <<0, 0, 9000>>, <<0, 0, 59500>> >>,
     << <<0, 1, 0>>, <<0, 1, 2000>> >>}

Cues ==
    {[id |-> "1", start_time |-> sp[1], end_time |-> sp[2], speaker |-> who,
      text |-> <<"o", "k">>] : sp \in Spans, who \in {"Alice", "Bob"}}

Gaps == {500, 5000}

InitGroup ==
    /\ pc = "group"
    /\ segments \in SeqsUpTo(Cues, MaxCues)
    /\ max_gap_seconds \in Gaps
    /\ lines = <<>> /\ statements = <<>>
    /\ max_tokens = 0 /\ chunks = <<>> /\ result_text = <<>> /\ cleaned_chunk = <<>>
    /\ cleaned_chunks = <<>> /\ i = 0 /\ k = 0 /\ prev_speaker = NoSpeaker
    /\ buffer = <<>> /\ file = <<>> /\ raw = <<>>

Group ==
    /\ pc = "group"
    /\ statements' = group_by_speaker(segments, max_gap_seconds)
    /\ pc' = "grouped"
    /\ UNCHANGED <<lines, segments, max_gap_seconds, max_tokens, chunks, result_text,
                   cleaned_chunk, cleaned_chunks, i, k, prev_speaker, buffer, file, raw>>

SpecGroup == InitGroup /\ [][Group]_vars

\* The gap between two timestamps as the claim states it: next.start - previous.end.
Gap(previous_end, next_start) ==
    (next_start[1] - previous_end[1]) * 3600000
    + (next_start[2] - previous_end[2]) * 60000
    + (next_start[3] - previous_end[3])

\* C3: each statement's segments are a non-empty run of one speaker whose
\* consecutive segments lie within max_gap_seconds, its start_time is its first
\* segment's start and its end_time its last segment's end, and the segments of
\* all statements in order are the input cue sequence.
C3_StatementsAreRuns ==
    pc = "grouped" =>
        /\ Flatten([n \in 1..Len(statements) |-> statements[n].segments]) = segments
        /\ \A n \in 1..Len(statements) :
              LET s == statements[n]
              IN  /\ s.segments # <<>>
                  /\ \A j \in 1..Len(s.segments) : s.segments[j].speaker = s.speaker
                  /\ \A j \in 1..(Len(s.segments) - 1) :
                        Gap(s.segments[j].end_time, s.segments[j + 1].start_time)
                            <= max_gap_seconds
                  /\ s.start_time = s.segments[1].start_time
                  /\ s.end_time = s.segments[Len(s.segments)].end_time

\* C3 witness: two statements, one of them merging an out-of-order cue (negative gap).
C3_Witness ==
    /\ pc = "grouped"
    /\ Len(statements) >= 2
    /\ \E n \in 1..Len(statements) :
          /\ Len(statements[n].segments) >= 2
          /\ Gap(statements[n].segments[1].end_time,
                 statements[n].segments[2].start_time) < 0

\* A statement as a single cue (speaker, start_time, end_time, full_text).
AsCue(statement) ==
    [id |-> "1", start_time |-> statement.start_time, end_time |-> statement.end_time,
     speaker |-> statement.speaker, text |-> full_text(statement)]

\* C4: two adjacent statements differ in speaker or lie more than
\* max_gap_seconds apart, and grouping the statements again, each as one cue,
\* yields one single-cue statement per statement.
C4_GroupingIdempotent ==
    pc = "grouped" =>
        LET cues == [n \in 1..Len(statements) |-> AsCue(statements[n])]
            again == group_by_speaker(cues, max_gap_seconds)
        IN  /\ \A n \in 1..(Len(statements) - 1) :
                  \/ statements[n].speaker # statements[n + 1].speaker
                  \/ Gap(statements[n].end_time, statements[n + 1].start_time)
                         > max_gap_seconds
            /\ Len(again) = Len(statements)
            /\ \A n \in 1..Len(again) : again[n].segments = <<cues[n]>>

\* C4 witness: a statement of two merged cues followed by a statement of the
\* same speaker, split off by the gap alone.
C4_Witness ==
    /\ pc = "grouped"
    /\ \E n \in 1..(Len(statements) - 1) :
          /\ Len(statements[n].segments) >= 2
          /\ statements[n].speaker = statements[n + 1].speaker

(***************************************************************************)
(* TranscriptChunker.create_chunks.                                        *)
(***************************************************************************)
\* Line 207: len(statement.full_text) // 4
statement_tokens(statement) == Len(full_text(statement)) \div 4

\* A bug the loop could have: the statement that closes a chunk is not carried
\* into the next one.
ChunkStep_DropsOnClose(st, statement, limit) ==
    IF st.current_tokens + statement_tokens(statement) > limit /\ st.current_chunk # <<>>
    THEN [chunks |-> Append(st.chunks, st.current_chunk),
          current_chunk |-> <<>>,
          current_tokens |-> 0]
    ELSE [chunks |-> st.chunks,
          current_chunk |-> Append(st.current_chunk, statement),
          current_tokens |-> st.current_tokens + statement_tokens(statement)]

\* A bug the loop could have: the budget is tested before the statement is counted.
ChunkStep_NoLookahead(st, statement, limit) ==
    LET closed == st.current_tokens > limit /\ st.current_chunk # <<>>
    IN  [chunks |-> IF closed THEN Append(st.chunks, st.current_chunk) ELSE st.chunks,
         current_chunk |-> Append(IF closed THEN <<>> ELSE st.current_chunk, statement),
         current_tokens |-> (IF closed THEN 0 ELSE st.current_tokens)
                            + statement_tokens(statement)]

\* Lines 205-216: one iteration of the loop over self.statements.
ChunkStep(st, statement, limit) ==
    LET closed == /\ st.current_tokens + statement_tokens(statement) > limit
                  /\ st.current_chunk # <<>>
    IN  [chunks |-> IF closed THEN Append(st.chunks, st.current_chunk) ELSE st.chunks,
         current_chunk |-> Append(IF closed THEN <<>> ELSE st.current_chunk, statement),
         current_tokens |-> (IF closed THEN 0 ELSE st.current_tokens)
                            + statement_tokens(statement)]

RECURSIVE ChunkLoop(_, _, _)
ChunkLoop(st, rest, limit) ==
    IF rest = <<>> THEN st ELSE ChunkLoop(ChunkStep(st, Head(rest), limit), Tail(rest), limit)

create_chunks(stmts, limit) ==
    LET st == ChunkLoop([chunks |-> <<>>, current_chunk |-> <<>>, current_tokens |-> 0],
                        stmts, limit)
    IN  IF st.current_chunk # <<>> THEN Append(st.chunks, st.current_chunk) ELSE st.chunks

\* A text of n characters.
Chars(n) == [j \in 1..n |-> "a"]

\* A statement of one speaker whose segments hold the given texts.
Statement(who, start, texts) ==
    SpeakerStatement(who,
        [n \in 1..Len(texts) |->
            [id |-> "1", start_time |-> start, end_time |-> start, speaker |-> who,
             text |-> texts[n]]])

\* The inputs: statements whose estimates are 0, 1, 2 and 4 tokens.
ChunkStatements ==
    {Statement("Alice", <<0, 0, 0>>, <<Chars(2)>>),
     Statement("Bob", <<0, 0, 2000>>, <<Chars(2), Chars(2)>>),
     Statement("Alice", <<0, 0, 4000>>, <<Chars(9)>>),
     Statement("Bob", <<0, 0, 9000>>, <<Chars(8), Chars(8)>>)}

InitChunk ==
    /\ pc = "chunk"
    /\ statements \in SeqsUpTo(ChunkStatements, MaxStatements)
    /\ max_tokens \in (-1)..MaxTokens
    /\ lines = <<>> /\ segments = <<>> /\ max_gap_seconds = 0
    /\ chunks = <<>> /\ result_text = <<>> /\ cleaned_chunk = <<>>
    /\ cleaned_chunks = <<>> /\ i = 0 /\ k = 0 /\ prev_speaker = NoSpeaker
    /\ buffer = <<>> /\ file = <<>> /\ raw = <<>>

Chunk ==
    /\ pc = "chunk"
    /\ chunks' = create_chunks(statements, max_tokens)
    /\ pc' = "chunked"
    /\ UNCHANGED <<lines, segments, max_gap_seconds, statements, max_tokens, result_text,
                   cleaned_chunk, cleaned_chunks, i, k, prev_speaker, buffer, file, raw>>

SpecChunk == InitChunk /\ [][Chunk]_vars

\* The estimate of a statement as the claim states it: the characters of its
\* segments' texts and of the spaces between them, divided by 4.
Estimate(statement) ==
    LET RECURSIVE Total(_)
        Total(n) == IF n = 0 THEN 0 ELSE Len(statement.segments[n].text) + Total(n - 1)
        count == Len(statement.segments)
    IN  (Total(count) + (IF count = 0 THEN 0 ELSE count - 1)) \div 4

RECURSIVE SumEstimates(_)
SumEstimates(batch) ==
    IF batch = <<>> THEN 0 ELSE Estimate(Head(batch)) + SumEstimates(Tail(batch))

\* C1: the batches, concatenated in order, are the input statement sequence, and
\* no batch is empty.
C1_BatchesPartition ==
    pc = "chunked" =>
        /\ Flatten(chunks) = statements
        /\ \A c \in 1..Len(chunks) : chunks[c] # <<>>

\* C1 witness: more than one batch, one of them holding several statements.
C1_Witness ==
    /\ pc = "chunked"
    /\ Len(chunks) >= 2
    /\ \E c \in 1..Len(chunks) : Len(chunks[c]) >= 2

\* C2: every batch is within max_tokens or holds exactly one statement, and a
\* statement whose own estimate exceeds max_tokens is alone in its batch.
C2_WithinBudgetOrSingleton ==
    pc = "chunked" =>
        \A c \in 1..Len(chunks) :
            /\ SumEstimates(chunks[c]) <= max_tokens \/ Len(chunks[c]) = 1
            /\ \A j \in 1..Len(chunks[c]) :
                  Estimate(chunks[c][j]) > max_tokens => Len(chunks[c]) = 1

\* C2 witness: an oversized statement in the middle of the input, alone in its
\* batch, between two neighbours of estimate 0.
C2_Witness ==
    /\ pc = "chunked"
    /\ max_tokens >= 1
    /\ \E c \in 2..(Len(chunks) - 1) :
          /\ Len(chunks[c]) = 1
          /\ Estimate(chunks[c][1]) > max_tokens
          /\ Estimate(Last(chunks[c - 1])) = 0
          /\ Estimate(chunks[c + 1][1]) = 0
          /\ Len(chunks[c + 1]) >= 2

(***************************************************************************)
(* TranscriptCleaner.clean_chunk, from the response of the external        *)
(* transform on.                                                           *)
(***************************************************************************)
\* Line 102: not line.startswith('Speaker:')
NotSpeakerLine(line) == ~(line # <<>> /\ line[1] = "S")

\* Lines 101-103: one part of the response, cleaned.
CleanPart(part) ==
    Strip(Join(SelectSeq(SplitOn(Strip(part), "\n"), NotSpeakerLine), <<"\n">>))

\* A bug the padding could have: missing entries are padded with empty texts.
Pad_Empty(cleaned, stmts) ==
    cleaned \o [j \in 1..(Len(stmts) - Len(cleaned)) |-> <<>>]

\* Lines 107-108: while len(cleaned) < len(statements), append the original text.
RECURSIVE Pad(_, _)
Pad(cleaned, stmts) ==
    IF Len(cleaned) < Len(stmts)
    THEN Pad(Append(cleaned, full_text(stmts[Len(cleaned) + 1])), stmts)
    ELSE cleaned

\* Lines 92-110.
clean_chunk(stmts, content) ==
    LET parts == SplitOn(Strip(content), "M")
        cleaned == [n \in 1..(Len(parts) - 1) |-> CleanPart(parts[n + 1])]
        padded == Pad(cleaned, stmts)
    IN  SubSeq(padded, 1, Len(stmts))

\* The inputs: one or two statements and any response of up to MaxResponseLen
\* characters over a marker, a "Speaker:" prefix, a line break, a space and a letter.
ResponseChars == {"M", "S", "\n", " ", "a"}

CleanStatements ==
    {Statement("Alice", <<0, 0, 0>>, <<<<"o">>>>),
     Statement("Bob", <<0, 0, 2000>>, <<<<"u">>, <<"m">>>>)}

InitClean ==
    /\ pc = "clean"
    /\ statements \in SeqsUpTo(CleanStatements, MaxCleanStatements) \ {<<>>}
    /\ result_text \in SeqsUpTo(ResponseChars, MaxResponseLen)
    /\ lines = <<>> /\ segments = <<>> /\ max_gap_seconds = 0
    /\ max_tokens = 0 /\ chunks = <<>> /\ cleaned_chunk = <<>>
    /\ cleaned_chunks = <<>> /\ i = 0 /\ k = 0 /\ prev_speaker = NoSpeaker
    /\ buffer = <<>> /\ file = <<>> /\ raw = <<>>

Clean ==
    /\ pc = "clean"
    /\ cleaned_chunk' = clean_chunk(statements, result_text)
    /\ pc' = "cleaned"
    /\ UNCHANGED <<lines, segments, max_gap_seconds, statements, max_tokens, chunks,
                   result_text, cleaned_chunks, i, k, prev_speaker, buffer, file, raw>>

SpecClean == InitClean /\ [][Clean]_vars

\* The markers of a response, and the text that follows the n-th of them up to
\* the next marker or the end of the response.
Markers(t) == {p \in 1..Len(t) : t[p] = "M"}

NthMarker(t, n) ==
    CHOOSE p \in Markers(t) \cup {Len(t) + 1} :
        Cardinality({q \in Markers(t) : q < p}) = n - 1

SegmentAfter(t, n) == SubSeq(t, NthMarker(t, n) + 1, NthMarker(t, n + 1) - 1)

\* A segment as replacement text: trimmed, its lines that start with "Speaker:"
\* removed, trimmed.
Replacement(segment) ==
    LET kept == SelectSeq(SplitOn(Strip(segment), "\n"), NotSpeakerLine)
    IN  Strip(Join(kept, <<"\n">>))

\* C7: for n statements and a response with m markers, clean_chunk returns
\* exactly n texts: entry j is the j-th marker-delimited segment without its
\* "Speaker:" lines for j <= min(m, n), the original full_text of statement j
\* for m < j <= n, and segments beyond the n-th are discarded.
C7_PadAndTruncate ==
    pc = "cleaned" =>
        LET m == Cardinality(Markers(result_text))
        IN  /\ Len(cleaned_chunk) = Len(statements)
            /\ \A j \in 1..Len(statements) :
                  cleaned_chunk[j] =
                      IF j <= m THEN Replacement(SegmentAfter(result_text, j))
                      ELSE full_text(statements[j])

\* C7 witness: a short response: text before the first marker, one marker whose
\* segment holds a "Speaker:" line and a text line, and two statements, so that
\* the second entry is padded with the original text.
C7_Witness ==
    /\ pc = "cleaned"
    /\ Len(statements) = 2
    /\ result_text = <<"a", "M", "S", "\n", "a">>
    /\ cleaned_chunk = <<<<"a">>, full_text(statements[2])>>

(***************************************************************************)
(* The two documents.  A document is the sequence of its lines; a line is  *)
(* a title, a subtitle, a blank line, a speaker heading ("## speaker"), a  *)
(* timestamp line ("**start**  ") or a text.                               *)
(***************************************************************************)
Line(kind, who, time, text) == [kind |-> kind, speaker |-> who, time |-> time, text |-> text]

Blank == Line("blank", "", <<>>, <<>>)
RawTitle == Line("# Meeting Transcript", "", <<>>, <<>>)
RawSubtitle == Line("*Grouped by speaker with timestamps*", "", <<>>, <<>>)
CleanedTitle == Line("# Cleaned Meeting Transcript", "", <<>>, <<>>)
Heading(who) == Line("heading", who, <<>>, <<>>)
Stamp(time) == Line("stamp", "", time, <<>>)
Text(text) == Line("text", "", <<>>, text)

\* vtt_parser.py 238-246 and clean_transcript.py 188-196: what one entry writes,
\* given prev_speaker.
EntryLines(prev, statement, text) ==
    (IF statement.speaker # prev
     THEN (IF prev # NoSpeaker THEN <<Blank>> ELSE <<>>)
          \o <<Heading(statement.speaker), Blank>>
     ELSE <<>>)
    \o <<Stamp(statement.start_time), Text(text), Blank>>

\* MarkdownExporter.export_raw: prev_speaker lives across the whole document.
RECURSIVE RawLoop(_, _)
RawLoop(prev, rest) ==
    IF rest = <<>> THEN <<>>
    ELSE EntryLines(prev, Head(rest), full_text(Head(rest)))
         \o RawLoop(Head(rest).speaker, Tail(rest))

export_raw(stmts) == <<RawTitle, Blank, RawSubtitle, Blank>> \o RawLoop(NoSpeaker, stmts)

(***************************************************************************)
(* clean_transcript.main, from Step 4 on.  Steps 2 and 3 have grouped the  *)
(* parsed cues with max_gap_seconds=5.0 and chunked the statements.  main  *)
(* passes max_tokens=2000 to the chunker; the texts here are a few         *)
(* characters long, so the budget is drawn from 0..MaxTokens, which splits *)
(* the statements in every way.                                            *)
(***************************************************************************)
\* clean_transcript.py line 126: max_gap_seconds=5.0, in milliseconds.
MainMaxGap == 5000

MainCues ==
    {[id |-> "1", start_time |-> sp[1], end_time |-> sp[2], speaker |-> who,
      text |-> Chars(4)] : sp \in Spans, who \in {"Alice", "Bob"}}

\* What clean_chunk may return for a chunk: one text per statement, each the
\* statement's own text, an empty text, a whitespace-only text or another text.
CleanResults(chunk) ==
    {r \in [1..Len(chunk) -> {<<>>, <<" ">>, <<"x">>} \cup
                             {full_text(chunk[n]) : n \in 1..Len(chunk)}] :
        \A n \in 1..Len(chunk) : r[n] \in {<<>>, <<" ">>, <<"x">>, full_text(chunk[n])}}

InitMain ==
    /\ pc = "export_raw"
    /\ segments \in SeqsUpTo(MainCues, MaxMainCues)
    /\ max_gap_seconds = MainMaxGap
    /\ statements = group_by_speaker(segments, max_gap_seconds)
    /\ max_tokens \in 0..MaxTokens
    /\ chunks = create_chunks(statements, max_tokens)
    /\ lines = <<>> /\ result_text = <<>> /\ cleaned_chunk = <<>>
    /\ cleaned_chunks = <<>> /\ i = 0 /\ k = 0 /\ prev_speaker = NoSpeaker
    /\ buffer = <<>> /\ file = <<>> /\ raw = <<>>

\* Line 138.
ExportRaw ==
    /\ pc = "export_raw"
    /\ raw' = export_raw(statements)
    /\ pc' = "write_header"
    /\ UNCHANGED <<lines, segments, max_gap_seconds, statements, max_tokens, chunks,
                   result_text, cleaned_chunk, cleaned_chunks, i, k, prev_speaker,
                   buffer, file>>

\* Lines 170-175: the header is written and closed, the loop starts at chunk 1.
WriteHeader ==
    /\ pc = "write_header"
    /\ file' = <<CleanedTitle, Blank>>
    /\ i' = 1
    /\ pc' = "clean"
    /\ UNCHANGED <<lines, segments, max_gap_seconds, statements, max_tokens, chunks,
                   result_text, cleaned_chunk, cleaned_chunks, k, prev_speaker,
                   buffer, raw>>

\* Lines 177-181: clean_chunk returns, the file is opened for append.
CallCleanChunk ==
    /\ pc = "clean"
    /\ i <= Len(chunks)
    /\ \E r \in CleanResults(chunks[i]) :
          /\ cleaned_chunk' = r
          /\ cleaned_chunks' = Append(cleaned_chunks, r)
    /\ prev_speaker' = NoSpeaker
    /\ buffer' = <<>>
    /\ k' = 1
    /\ pc' = "write"
    /\ UNCHANGED <<lines, segments, max_gap_seconds, statements, max_tokens, chunks,
                   result_text, i, file, raw>>

\* Line 177: the call of the external transform raises; nothing catches it.
TransformFails ==
    /\ pc = "clean"
    /\ i <= Len(chunks)
    /\ pc' = "failed"
    /\ UNCHANGED <<lines, segments, max_gap_seconds, statements, max_tokens, chunks,
                   result_text, cleaned_chunk, cleaned_chunks, i, k, prev_speaker,
                   buffer, file, raw>>

\* Lines 182-196: one iteration over zip(chunk, cleaned_chunk).
WriteEntry ==
    /\ pc = "write"
    /\ k <= Len(chunks[i])
    /\ IF Strip(cleaned_chunk[k]) = <<>>
       THEN UNCHANGED <<buffer, prev_speaker>>
       ELSE /\ buffer' = buffer \o EntryLines(prev_speaker, chunks[i][k], cleaned_chunk[k])
            /\ prev_speaker' = chunks[i][k].speaker
    /\ k' = k + 1
    /\ UNCHANGED <<pc, lines, segments, max_gap_seconds, statements, max_tokens, chunks,
                   result_text, cleaned_chunk, cleaned_chunks, i, file, raw>>

\* Lines 180 and 198: the with block ends, the file is closed and what was
\* written reaches it; on to the next chunk.
CloseChunk ==
    /\ pc = "write"
    /\ k > Len(chunks[i])
    /\ file' = file \o buffer
    /\ buffer' = <<>>
    /\ i' = i + 1
    /\ pc' = "clean"
    /\ UNCHANGED <<lines, segments, max_gap_seconds, statements, max_tokens, chunks,
                   result_text, cleaned_chunk, cleaned_chunks, k, prev_speaker, raw>>

\* Line 201: the loop is over.
Finish ==
    /\ pc = "clean"
    /\ i > Len(chunks)
    /\ pc' = "done"
    /\ UNCHANGED <<lines, segments, max_gap_seconds, statements, max_tokens, chunks,
                   result_text, cleaned_chunk, cleaned_chunks, i, k, prev_speaker,
                   buffer, file, raw>>

\* The run is interrupted (KeyboardInterrupt) between two steps of the loop.
\* Inside the with block of line 180 the exception closes the file on its way
\* out, so what was written so far reaches the file.
Interrupt ==
    /\ pc \in {"clean", "write"}
    /\ file' = file \o buffer
    /\ buffer' = <<>>
    /\ pc' = "interrupted"
    /\ UNCHANGED <<lines, segments, max_gap_seconds, statements, max_tokens, chunks,
                   result_text, cleaned_chunk, cleaned_chunks, i, k, prev_speaker, raw>>

NextMain ==
    \/ ExportRaw
    \/ WriteHeader
    \/ CallCleanChunk
    \/ TransformFails
    \/ WriteEntry
    \/ CloseChunk
    \/ Finish
    \/ Interrupt

SpecMain == InitMain /\ [][NextMain]_vars

(***************************************************************************)
(* The cleaned document as the claims describe it.                         *)
(***************************************************************************)
\* The (statement, replacement text) entries of all batches, in order.
EntryStatements == Flatten(chunks)
EntryTexts == Flatten(cleaned_chunks)

IsVisible(text) == \E n \in 1..Len(text) : text[n] \notin Whitespace

\* The speakers of the entries whose replacement text is not empty after trimming.
RECURSIVE VisibleSpeakers(_)
VisibleSpeakers(n) ==
    IF n = 0 THEN <<>>
    ELSE VisibleSpeakers(n - 1)
         \o (IF IsVisible(EntryTexts[n]) THEN <<EntryStatements[n].speaker>> ELSE <<>>)

\* The number of maximal runs of equal elements.
Runs(s) == Cardinality({n \in 1..Len(s) : n = 1 \/ s[n] # s[n - 1]})

Headings(doc) == {p \in 1..Len(doc) : doc[p].kind = "heading"}

\* C5: in the finished cleaned document the number of speaker headings is the
\* number of maximal runs of equal speakers among the entries of all batches
\* whose replacement text is not empty after trimming.
C5_HeadingsAreSpeakerRuns ==
    pc = "done" =>
        Cardinality(Headings(file)) = Runs(VisibleSpeakers(Len(EntryTexts)))

\* The complete rendering of one batch.
RECURSIVE BatchLines(_, _, _, _)
BatchLines(prev, chunk, texts, n) ==
    IF n > Len(chunk) THEN <<>>
    ELSE IF ~IsVisible(texts[n]) THEN BatchLines(prev, chunk, texts, n + 1)
    ELSE EntryLines(prev, chunk[n], texts[n])
         \o BatchLines(chunk[n].speaker, chunk, texts, n + 1)

\* The title header followed by the complete renderings of batches 1..j.
UpToBatch(j) ==
    <<CleanedTitle, Blank>>
    \o Flatten([c \in 1..j |-> BatchLines(NoSpeaker, chunks[c], cleaned_chunks[c], 1)])

\* C6: whenever the run is interrupted or the external transform call fails, the
\* file is the title header followed by the complete renderings of the first j
\* batches for some j: never a partially written batch.
C6_FileIsWholeBatches ==
    pc \in {"interrupted", "failed"} =>
        \E j \in 0..Len(cleaned_chunks) : file = UpToBatch(j)

\* A heading is preceded by the extra blank separator line when the two lines
\* before it are blank: the one that ends the previous entry, and the separator.
SeparatorBefore(doc, p) == p > 2 /\ doc[p - 1] = Blank /\ doc[p - 2] = Blank

SeparatedHeadings(doc) ==
    \A p \in Headings(doc) :
        SeparatorBefore(doc, p) <=> \E q \in Headings(doc) : q < p

\* The external transform returned every statement's text unchanged and non-empty.
IdentityTransform ==
    \A n \in 1..Len(EntryTexts) :
        EntryTexts[n] = full_text(EntryStatements[n]) /\ IsVisible(EntryTexts[n])

\* C10: in both finished documents every heading but the first follows the
\* blank separator line and the first does not; and when the transform returns
\* every text unchanged, the cleaned document after its title is the raw
\* document after its title and subtitle.
C10_CleanedMatchesRaw ==
    pc = "done" =>
        /\ SeparatedHeadings(raw)
        /\ SeparatedHeadings(file)
        /\ IdentityTransform => SubSeq(file, 3, Len(file)) = SubSeq(raw, 5, Len(raw))

=============================================================================
